---- MODULE Spec2Model ----
(***************************************************************************)
(* State-synchronisation engine of the AutoSRE dashboard                   *)
(* (frontend/src/App.jsx, the App component of lines 58-216).              *)
(*                                                                         *)
(* The component keeps services, incidents, aiStatus and loading in React  *)
(* state cells, polls the backend with fetchData (once on mount and then   *)
(* every 5000 ms through setInterval), and dispatches the two mutating     *)
(* calls restartService and simulateIncident.  Every step of the model is  *)
(* one run-to-completion piece of JavaScript: a handler up to its first    *)
(* await, or the continuation of an await up to the next one.  React       *)
(* applies the state setters called in one such piece together, so a       *)
(* render sees the state between two steps.                                *)
(*                                                                         *)
(* Time is the nominal timer clock in milliseconds.                        *)
(*                                                                         *)
(* Lines 1-39 of the file hold an earlier revision of the same component   *)
(* (no loading flag, no actions, no toasts; fetchData awaits its three     *)
(* reads one after the other and has no catch).  Its effect and its        *)
(* setters are those of the later revision, which Spec models; the earlier *)
(* fetchData is modelled by SpecEarlier.  The views (Dashboard.jsx,        *)
(* AlertPanel.jsx, the render of App) are modelled by SpecViews.           *)
(***************************************************************************)
EXTENDS Integers, Sequences, FiniteSets, TLC

\* ------------------------------------------------------------- bounds
\* syncs (fetchData runs) started in one behaviour
MaxSyncs == 3
\* fetchData runs in flight at the same time
MaxInFlight == MaxSyncs - 1
\* restartService / simulateIncident invocations in one behaviour
MaxActions == 2
\* timer periods the clock may run through
MaxTicks == 2
\* responses with a non-2xx status a behaviour may hold
MaxNon2xx == 1
\* services / incidents in a list the views are given
MaxItems == 2

\* ---------------------------------------------------------- constants
\* setInterval(fetchData, 5000)
Period == 5000
\* the clock is observed when the timer is due and Quantum ms after that: no
\* step of the program depends on the time elsewhere within a period
Quantum == Period \div 5
MaxTime == MaxTicks * Period + Quantum
\* clearInterval'ed / never registered
NoTimer == -1

\* the three reads of one fetchData run
Reads == {"services", "incidents", "ai"}
\* what a fetch() promise of a read settles to: a response (of any status; the
\* code never reads it) or a rejection (network error)
FetchOutcomes == {"response", "reject"}
\* what a response.json() yields: the parsed body of a 2xx response ("data") or
\* the parsed error body of a non-2xx response ("error"); the three bodies of a
\* run, or no bodies when one of the three json() promises rejects
Bodies == [1..3 -> {"data", "error"}]
Throws == <<>>
JsonOutcomes == Bodies \cup {Throws}
ErrorsIn(d) == Cardinality({k \in DOMAIN d : d[k] = "error"})
\* what the POST of an action settles to
PostOutcomes == {"ok", "non2xx", "reject"}
\* the ids the Restart buttons pass; the id only selects the POST's URL
ServiceIds == {1}
ActionKinds == {"restart", "simulate"}
SyncIds == 1..MaxSyncs

VARIABLES
    now,          \* the clock, ms
    mounted,      \* the App component is mounted (its state cells are live)
    interval,     \* next fire time of the setInterval timer, or NoTimer
    epoch,        \* number of effect setups so far (observation only)
    attempts,     \* times of the fetchData calls made by the effect and its
                  \* timer since the last setup (observation only)
    services,     \* useState([])            : [sync, body]
    incidents,    \* useState([])            : [sync, body]
    aiStatus,     \* useState({active:false}): [sync, body]
    loading,      \* useState(true)
    syncs,        \* the fetchData runs: SyncIds -> [pc, pending, epoch]
    non2xx,       \* non-2xx responses so far (observation only)
    nextSync,     \* id of the next fetchData run
    newest,       \* highest id among the runs that have committed (obs. only)
    calls,        \* POSTs in flight: how many of each kind
    invocations,  \* restartService / simulateIncident invocations so far
    posts,        \* POST requests issued so far
    last,         \* what the last step did and emitted (observation only)
    screen        \* what the views render of the props they are given

vars == <<now, mounted, interval, epoch, attempts, services, incidents,
          aiStatus, loading, syncs, non2xx, nextSync, newest, calls,
          invocations, posts, last, screen>>

snapshot == <<services, incidents, aiStatus>>

\* ------------------------------------------------------------ helpers
Min(a, b) == IF a <= b THEN a ELSE b

\* a state cell's value: the run that wrote it and the kind of body it holds
Cell(s, b) == [sync |-> s, body |-> b]
\* a run that has not started, and one that is over
IdleRun == [pc |-> "idle", pending |-> {}, epoch |-> 0]
DoneRun == [pc |-> "done", pending |-> {}, epoch |-> 0]
InFlight == {s \in SyncIds : syncs[s].pc \notin {"idle", "done"}}
\* the model's bounds leave room for one more fetchData run
CanStart == nextSync <= MaxSyncs /\ Cardinality(InFlight) < MaxInFlight

\* what the step did that ended a fetchData run or an action handler: the
\* handler, its outcome, and the notifications it emitted, in order
Did(op, out, toasts) == [op |-> op, out |-> out, toasts |-> toasts]

\* toast.success(msg) / toast.error(msg)
Toast(kind, msg) == [kind |-> kind, msg |-> msg]

\* a step that ends no run and no invocation
Quiet == Did("step", "none", <<>>)

\* ---------------------------------------------------------- fetchData
\* lines 73-77: the three fetch() calls are issued, then Promise.all is awaited
FetchDataStart(e) == [pc |-> "all", pending |-> Reads, epoch |-> e]

\* a React state setter: applied while the component is mounted, dropped after
SetState(cell, v) == IF mounted THEN v ELSE cell

\* a catch block that also gives the polling up
FetchDataCatchStops(s) ==
    /\ syncs' = [syncs EXCEPT ![s] = DoneRun]
    /\ interval' = NoTimer
    /\ last' = Did("fetchData", "failed",
                   <<Toast("error", "Failed to fetch data from backend")>>)
    /\ UNCHANGED <<now, mounted, epoch, attempts, services, incidents,
                   aiStatus, loading, non2xx, nextSync, newest, calls,
                   invocations, posts, screen>>

\* lines 87-90: the catch block
FetchDataCatch(s) ==
    /\ syncs' = [syncs EXCEPT ![s] = DoneRun]
    /\ last' = Did("fetchData", "failed",
                   <<Toast("error", "Failed to fetch data from backend")>>)
    /\ UNCHANGED <<now, mounted, interval, epoch,
                   attempts, services, incidents, aiStatus, loading, non2xx, nextSync,
                   newest, calls, invocations, posts, screen>>

\* The render that follows a commit throws when a list cell holds an error body:
\* incidents.filter (App.jsx:211) always, services.filter (Dashboard.jsx:5) when
\* the dashboard tab is shown.  An uncaught render error unmounts the tree.
RenderThrows(sv, in) ==
    IF in.body = "error" THEN {TRUE}
    ELSE IF sv.body = "error" THEN {TRUE, FALSE}
    ELSE {FALSE}

\* a cleanup that leaves the timer registered
CleanupLeaks == interval' = interval

\* line 68, the effect's cleanup: clearInterval(interval)
Cleanup == interval' = NoTimer

\* a commit that merges field by field, keeping the old value of a field whose
\* read came back with an error body
FetchDataCommitPartial(s, d) ==
    /\ services' = IF d[1] = "data" THEN Cell(s, d[1]) ELSE services
    /\ incidents' = IF d[2] = "data" THEN Cell(s, d[2]) ELSE incidents
    /\ aiStatus' = IF d[3] = "data" THEN Cell(s, d[3]) ELSE aiStatus
    /\ loading' = FALSE
    /\ newest' = IF s > newest THEN s ELSE newest
    /\ syncs' = [syncs EXCEPT ![s] = DoneRun]
    /\ non2xx' = non2xx + ErrorsIn(d)
    /\ last' = Did("fetchData", "committed", <<>>)
    /\ UNCHANGED <<now, mounted, interval, epoch, attempts, nextSync, calls,
                   invocations, posts, screen>>

\* lines 83-86: the four setters, applied together; d is servicesData,
\* incidentsData, aiData
FetchDataCommit(s, d) ==
    /\ services' = SetState(services, Cell(s, d[1]))
    /\ incidents' = SetState(incidents, Cell(s, d[2]))
    /\ aiStatus' = SetState(aiStatus, Cell(s, d[3]))
    /\ loading' = SetState(loading, FALSE)
    /\ newest' = IF mounted /\ s > newest THEN s ELSE newest
    /\ syncs' = [syncs EXCEPT ![s] = DoneRun]
    /\ non2xx' = non2xx + ErrorsIn(d)
    /\ last' = Did("fetchData",
                   IF ErrorsIn(d) > 0 THEN "committedError" ELSE "committed",
                   <<>>)
    /\ \E crash \in RenderThrows(services', incidents') :
          IF mounted /\ crash
          THEN mounted' = FALSE /\ Cleanup
          ELSE UNCHANGED <<mounted, interval>>
    /\ UNCHANGED <<now, epoch, attempts, nextSync, calls,
                   invocations, posts, screen>>

\* line 73: one of the three fetch() promises settles while Promise.all waits
ReadSettles(s, r, out) ==
    /\ syncs[s].pc = "all"
    /\ r \in syncs[s].pending
    /\ IF out = "reject"
       THEN FetchDataCatch(s)
       ELSE /\ syncs' = [syncs EXCEPT ![s] =
                   [@ EXCEPT !.pending = @ \ {r},
                             !.pc = IF syncs[s].pending = {r}
                                    THEN "json" ELSE "all"]]
            /\ last' = Quiet
            /\ UNCHANGED <<now, mounted, interval, epoch,
                           attempts, services, incidents, aiStatus, loading, non2xx,
                           nextSync, newest, calls, invocations, posts, screen>>

\* lines 79-81: the three awaited response.json() promises settle.  The awaits
\* between them read and write nothing shared, so they are taken as one step.
JsonSettles(s, d) ==
    /\ syncs[s].pc = "json"
    /\ IF d = Throws
       THEN FetchDataCatch(s)
       ELSE /\ non2xx + ErrorsIn(d) <= MaxNon2xx
            /\ FetchDataCommit(s, d)

\* ------------------------------------------------- the mount effect
\* lines 66-67: fetchData(); setInterval(fetchData, 5000)
Setup ==
    /\ CanStart
    /\ syncs' = [syncs EXCEPT ![nextSync] = FetchDataStart(epoch + 1)]
    /\ nextSync' = nextSync + 1
    /\ interval' = now + Period
    /\ epoch' = epoch + 1
    /\ attempts' = {now}

\* the first run of the effect, after the first render
Mount ==
    /\ mounted /\ epoch = 0
    /\ Setup
    /\ last' = Quiet
    /\ UNCHANGED <<now, mounted, services, incidents, aiStatus,
                   loading, non2xx, newest, calls, invocations, posts, screen>>

\* React re-runs the effect with the state cells kept (StrictMode's second
\* mount, which follows the first at once): the cleanup of line 68, then
\* lines 66-67 again
Remount ==
    /\ mounted /\ epoch = 1
    /\ now = 0
    /\ Setup
    /\ last' = Quiet
    /\ UNCHANGED <<now, mounted, services, incidents, aiStatus, loading, non2xx,
                   newest, calls, invocations, posts, screen>>

\* the component is unmounted: the cleanup of line 68 runs, nothing restarts
Unmount ==
    /\ mounted /\ epoch > 0
    /\ mounted' = FALSE
    /\ Cleanup
    /\ last' = Quiet
    /\ UNCHANGED <<now, epoch, attempts, services, incidents,
                   aiStatus, loading, non2xx, syncs, nextSync, newest, calls,
                   invocations, posts, screen>>

\* line 67: an interval timer that fired at t fires next one period later
Rearm(t) == t + Period

\* line 67: the interval timer fires and calls fetchData
Tick ==
    /\ interval # NoTimer /\ interval = now
    /\ CanStart
    /\ syncs' = [syncs EXCEPT ![nextSync] = FetchDataStart(epoch)]
    /\ nextSync' = nextSync + 1
    /\ interval' = Rearm(interval)
    /\ attempts' = attempts \cup {now}
    /\ last' = Quiet
    /\ UNCHANGED <<now, mounted, epoch, services,
                   incidents, aiStatus, loading, non2xx, newest, calls, invocations,
                   posts, screen>>

\* the next instant the clock is observed at, from t
NextInstant(t) ==
    IF t % Period = 0 THEN t + Quantum ELSE (t \div Period + 1) * Period

\* the clock advances, never past a timer that is due; it starts when the
\* effect first runs
Advance ==
    /\ epoch > 0
    /\ interval = NoTimer \/ now < interval
    /\ NextInstant(now) <= MaxTime
    /\ now' = IF interval = NoTimer THEN NextInstant(now)
              ELSE Min(NextInstant(now), interval)
    /\ last' = Quiet
    /\ UNCHANGED <<mounted, interval, epoch, attempts,
                   services, incidents, aiStatus, loading, non2xx, syncs, nextSync,
                   newest, calls, invocations, posts, screen>>

\* a Refresh that also registers the timer anew, one period from now
RefreshRestartsTimer ==
    /\ mounted /\ epoch > 0
    /\ CanStart
    /\ syncs' = [syncs EXCEPT ![nextSync] = FetchDataStart(epoch)]
    /\ nextSync' = nextSync + 1
    /\ interval' = now + Period
    /\ last' = Quiet
    /\ UNCHANGED <<now, mounted, epoch, attempts, services, incidents,
                   aiStatus, loading, non2xx, newest, calls, invocations,
                   posts, screen>>

\* lines 152-154: the Refresh button, onClick={fetchData}
Refresh ==
    /\ mounted /\ epoch > 0
    /\ CanStart
    /\ syncs' = [syncs EXCEPT ![nextSync] = FetchDataStart(epoch)]
    /\ nextSync' = nextSync + 1
    /\ last' = Quiet
    /\ UNCHANGED <<now, mounted, interval, epoch,
                   attempts, services, incidents, aiStatus, loading, non2xx, newest,
                   calls, invocations, posts, screen>>

\* ------------------------------------------------------- the actions
\* a handler that issues no POST while one of its kind is in flight
PostsPerCallDeduplicated(kind) == IF calls[kind] > 0 THEN 0 ELSE 1

\* lines 95-98 and 113-116: the POST requests a handler issues when invoked
PostsPerCall(kind) == 1

\* lines 95-98 and 113-116: the handler issues its POST and awaits it
Dispatch(kind) ==
    /\ invocations < MaxActions
    /\ invocations' = invocations + 1
    /\ posts' = posts + PostsPerCall(kind)
    /\ calls' = [calls EXCEPT ![kind] = @ + 1]
    /\ last' = Quiet
    /\ UNCHANGED <<now, mounted, interval, epoch,
                   attempts, services, incidents, aiStatus, loading, non2xx, syncs,
                   nextSync, newest, screen>>

\* lines 93-98: a Restart button of the service views, which are rendered
\* once loading is false (lines 174-203)
RestartService(id) ==
    /\ mounted /\ epoch > 0 /\ ~loading
    /\ Dispatch("restart")

\* lines 111-116 and 149-151: the Simulate Incident button of the header
SimulateIncident ==
    /\ mounted /\ epoch > 0
    /\ Dispatch("simulate")

\* a handler that calls fetchData() whatever the response
ResyncsAlways(kind, out) == out \in {"ok", "non2xx"}

\* lines 100-102 and 118-120: the handler calls fetchData() after its POST
\* when response.ok
Resyncs(kind, out) == out = "ok"

\* a restart handler that reports a non-2xx response in its else branch and
\* then again as an error
NoticeTwice(kind, out) ==
    IF kind = "restart"
    THEN CASE out = "ok" -> <<Toast("success", "Service restarted successfully")>>
           [] out = "non2xx" -> <<Toast("error", "Failed to restart service"),
                                  Toast("error", "Error restarting service")>>
           [] OTHER -> <<Toast("error", "Error restarting service")>>
    ELSE CASE out = "ok" -> <<Toast("success", "Incident simulated successfully")>>
           [] out = "non2xx" -> <<>>
           [] OTHER -> <<Toast("error", "Error simulating incident")>>

\* lines 101, 104, 107 and 119, 123: the toasts the handler emits
Notice(kind, out) ==
    IF kind = "restart"
    THEN CASE out = "ok" -> <<Toast("success", "Service restarted successfully")>>
           [] out = "non2xx" -> <<Toast("error", "Failed to restart service")>>
           [] OTHER -> <<Toast("error", "Error restarting service")>>
    ELSE CASE out = "ok" -> <<Toast("success", "Incident simulated successfully")>>
           [] out = "non2xx" -> <<>>
           [] OTHER -> <<Toast("error", "Error simulating incident")>>

\* lines 99-108 and 117-124: the POST of an invocation of the kind settles
PostSettles(kind, out) ==
    /\ calls[kind] > 0
    /\ calls' = [calls EXCEPT ![kind] = @ - 1]
    /\ IF Resyncs(kind, out)
       THEN /\ CanStart
            /\ syncs' = [syncs EXCEPT ![nextSync] = FetchDataStart(epoch)]
            /\ nextSync' = nextSync + 1
            /\ last' = Did(kind, out, Notice(kind, out))
       ELSE /\ last' = Did(kind, out, Notice(kind, out))
            /\ UNCHANGED <<syncs, nextSync>>
    /\ UNCHANGED <<now, mounted, interval, epoch,
                   attempts, services, incidents, aiStatus, loading, non2xx, newest,
                   invocations, posts, screen>>

\* ---------------------------------------------------------- the views
\* The views are functions of their props.  A service and an incident are
\* taken by their status, the one field the counts and the banner read.  The
\* views are checked on lists of every content (SpecViews); the specifications
\* of the engine, which take a body by its kind, leave the screen alone.
\* "degraded" and "investigating" stand for the statuses the backend may define
ServiceStatuses == {"healthy", "unhealthy", "degraded"}
IncidentStatuses == {"open", "resolved", "investigating"}
Lists(S) == UNION {[1..n -> S] : n \in 0..MaxItems}
\* App.jsx lines 127-131: the tabs
Tabs == {"dashboard", "services", "incidents"}

\* Dashboard.jsx line 5: s => s.status === 'healthy'
IsHealthy(s) == s = "healthy"
\* Dashboard.jsx line 7 and App.jsx line 211: i => i.status !== 'resolved'
NotResolved(i) == i # "resolved"

\* Dashboard.jsx line 5
healthyCount(svs) == Len(SelectSeq(svs, IsHealthy))

\* an unhealthy count that looks for the status 'unhealthy'
IsUnhealthy(s) == s = "unhealthy"
unhealthyCountByStatus(svs) == Len(SelectSeq(svs, IsUnhealthy))

\* Dashboard.jsx line 6
unhealthyCount(svs) == Len(svs) - healthyCount(svs)

\* Dashboard.jsx line 7
activeIncidents(incs) == Len(SelectSeq(incs, NotResolved))

\* a footer that counts the incidents whose status is 'open'
IsOpen(i) == i = "open"
footerOpenIncidents(incs) == Len(SelectSeq(incs, IsOpen))

\* App.jsx line 211: the footer's own count
footerActiveIncidents(incs) == Len(SelectSeq(incs, NotResolved))

\* Dashboard.jsx lines 24-36: the stat cards
Dashboard(svs, incs) ==
    [total |-> Len(svs),
     healthyCount |-> healthyCount(svs),
     unhealthyCount |-> unhealthyCount(svs),
     activeIncidents |-> activeIncidents(incs)]

\* AlertPanel.jsx lines 1-4: the banner is rendered unless the list is empty
AlertPanel(incs) == ~(Len(incs) = 0)

\* App.jsx lines 174-213: the main content (the loading placeholder, or the
\* banner and the view of the active tab; cards holds the dashboard's stat
\* cards when the dashboard is rendered) and the footer
AppView(svs, incs, ld, tab) ==
    [services |-> svs,
     incidents |-> incs,
     loading |-> ld,
     activeTab |-> tab,
     banner |-> IF ld THEN FALSE ELSE AlertPanel(incs),
     cards |-> IF ~ld /\ tab = "dashboard"
               THEN <<Dashboard(svs, incs)>> ELSE <<>>,
     footer |-> [services |-> Len(svs),
                 activeIncidents |-> footerActiveIncidents(incs)]]

engine == <<now, mounted, interval, epoch, attempts, services, incidents,
            aiStatus, loading, syncs, non2xx, nextSync, newest, calls,
            invocations, posts, last>>

\* App renders with the lists and the loading flag its state cells hold: the
\* lists are empty while loading is true (lines 60-63, 83-86), and loading
\* does not return to true
Render(svs, incs, ld) ==
    /\ ld => svs = <<>> /\ incs = <<>>
    /\ ~screen.loading => ~ld
    /\ screen' = AppView(svs, incs, ld, screen.activeTab)
    /\ UNCHANGED engine

\* App.jsx lines 59 and 164: a tab button, setActiveTab(tab.id)
SetActiveTab(tab) ==
    /\ screen' = AppView(screen.services, screen.incidents, screen.loading, tab)
    /\ UNCHANGED engine

\* ------------------------------------------------------ specification
Init ==
    /\ now = 0
    /\ mounted = TRUE
    /\ interval = NoTimer
    /\ epoch = 0
    /\ attempts = {}
    /\ services = Cell(0, "init")
    /\ incidents = Cell(0, "init")
    /\ aiStatus = Cell(0, "init")
    /\ loading = TRUE
    /\ syncs = [s \in SyncIds |-> IdleRun]
    /\ non2xx = 0
    /\ nextSync = 1
    /\ newest = 0
    /\ calls = [k \in ActionKinds |-> 0]
    /\ invocations = 0
    /\ posts = 0
    /\ last = Quiet
    /\ screen = AppView(<<>>, <<>>, TRUE, "dashboard")

Next ==
    \/ Mount
    \/ Remount
    \/ Unmount
    \/ Tick
    \/ Advance
    \/ Refresh
    \/ \E id \in ServiceIds : RestartService(id)
    \/ SimulateIncident
    \/ \E s \in SyncIds, r \in Reads, out \in FetchOutcomes : ReadSettles(s, r, out)
    \/ \E s \in SyncIds, out \in JsonOutcomes : JsonSettles(s, out)
    \/ \E k \in ActionKinds, out \in PostOutcomes : PostSettles(k, out)

Spec == Init /\ [][Next]_vars

\* The component with an operator who only watches: the effect, its timer and
\* the syncs they start.
NextPolling ==
    \/ Mount
    \/ Remount
    \/ Unmount
    \/ Tick
    \/ Advance
    \/ \E s \in SyncIds, r \in Reads, out \in FetchOutcomes : ReadSettles(s, r, out)
    \/ \E s \in SyncIds, out \in JsonOutcomes : JsonSettles(s, out)

SpecPolling == Init /\ [][NextPolling]_vars

\* The same, with the scheduling the browser guarantees: time passes, and a
\* timer that is due fires.  Nothing is assumed of the backend: a read may
\* stay pending forever.
FairPolling == SpecPolling /\ WF_vars(Advance) /\ WF_vars(Tick)

\* The component within its first timer period, with an operator who uses the
\* action buttons: the two handlers and the syncs they start.
NextOperator ==
    \/ Mount
    \/ Unmount
    \/ \E id \in ServiceIds : RestartService(id)
    \/ SimulateIncident
    \/ \E s \in SyncIds, r \in Reads, out \in FetchOutcomes : ReadSettles(s, r, out)
    \/ \E s \in SyncIds, out \in JsonOutcomes : JsonSettles(s, out)
    \/ \E k \in ActionKinds, out \in PostOutcomes : PostSettles(k, out)

SpecOperator == Init /\ [][NextOperator]_vars

\* The component with a backend that answers every read with its data, and an operator
\* who refreshes and restarts services while the timer runs.
NextForced ==
    \/ Mount
    \/ Tick
    \/ Advance
    \/ Refresh
    \/ \E id \in ServiceIds : RestartService(id)
    \/ \E s \in SyncIds, r \in Reads : ReadSettles(s, r, "response")
    \/ \E s \in SyncIds : JsonSettles(s, [k \in 1..3 |-> "data"])
    \/ \E out \in PostOutcomes \ {"reject"} : PostSettles("restart", out)

SpecForced == Init /\ [][NextForced]_vars

\* The views alone, on every pair of lists within the bound.
NextViews ==
    \/ \E svs \in Lists(ServiceStatuses), incs \in Lists(IncidentStatuses),
          ld \in BOOLEAN : Render(svs, incs, ld)
    \/ \E tab \in Tabs : SetActiveTab(tab)

SpecViews == Init /\ [][NextViews]_vars

\* ------------------------------------------- the earlier revision
\* App.jsx lines 1-39: the same effect (lines 20-24) around a fetchData that
\* awaits its three reads one after the other and has no catch block, no
\* loading flag and no toast.  pending holds, as above, the reads that have
\* been issued and have not settled.
\* lines 11-13: the order of the reads
FirstRead == "services"
NextRead(r) == IF r = "services" THEN "incidents" ELSE "ai"
LastRead == "ai"
\* what fetch(...).then(r => r.json()) settles to: a parsed body, or a rejection
\* (network error, or a body that does not parse)
ChainOutcomes == {"body", "reject"}

\* line 11: fetchData issues its first read and awaits it
FetchDataStartEarlier(e) == [pc |-> "seq", pending |-> {FirstRead}, epoch |-> e]

\* lines 26-36: AlertPanel and Dashboard are always rendered; Dashboard calls
\* services.filter and incidents.filter (Dashboard.jsx lines 5 and 7)
RenderThrowsEarlier(sv, in) == sv.body = "error" \/ in.body = "error"

\* lines 15-17: the three setters, applied together
FetchDataCommitEarlier(s, d) ==
    /\ services' = SetState(services, Cell(s, d[1]))
    /\ incidents' = SetState(incidents, Cell(s, d[2]))
    /\ aiStatus' = SetState(aiStatus, Cell(s, d[3]))
    /\ newest' = IF mounted /\ s > newest THEN s ELSE newest
    /\ syncs' = [syncs EXCEPT ![s] = DoneRun]
    /\ non2xx' = non2xx + ErrorsIn(d)
    /\ last' = Did("fetchData",
                   IF ErrorsIn(d) > 0 THEN "committedError" ELSE "committed",
                   <<>>)
    /\ IF mounted /\ RenderThrowsEarlier(services', incidents')
       THEN mounted' = FALSE /\ Cleanup
       ELSE UNCHANGED <<mounted, interval>>
    /\ UNCHANGED <<now, epoch, attempts, loading, nextSync, calls,
                   invocations, posts, screen>>

\* lines 11-13: the awaited read of run s settles.  A rejection ends the run
\* (nothing catches it); a body lets the run issue its next read or, after
\* the last, reach the setters with the three bodies d
ReadSettlesEarlier(s, out, d) ==
    /\ syncs[s].pc = "seq"
    /\ \E r \in syncs[s].pending :
         IF out = "reject"
         THEN /\ syncs' = [syncs EXCEPT ![s] = DoneRun]
              /\ last' = Did("fetchData", "failed", <<>>)
              /\ UNCHANGED <<now, mounted, interval, epoch, attempts, services,
                             incidents, aiStatus, loading, non2xx, nextSync,
                             newest, calls, invocations, posts, screen>>
         ELSE IF r # LastRead
         THEN /\ syncs' = [syncs EXCEPT ![s].pending = {NextRead(r)}]
              /\ last' = Quiet
              /\ UNCHANGED <<now, mounted, interval, epoch, attempts, services,
                             incidents, aiStatus, loading, non2xx, nextSync,
                             newest, calls, invocations, posts, screen>>
         ELSE /\ non2xx + ErrorsIn(d) <= MaxNon2xx
              /\ FetchDataCommitEarlier(s, d)

\* lines 20-24, first run of the effect: fetchData(); setInterval(fetchData, 5000)
MountEarlier ==
    /\ mounted /\ epoch = 0
    /\ CanStart
    /\ syncs' = [syncs EXCEPT ![nextSync] = FetchDataStartEarlier(epoch + 1)]
    /\ nextSync' = nextSync + 1
    /\ interval' = now + Period
    /\ epoch' = epoch + 1
    /\ attempts' = {now}
    /\ last' = Quiet
    /\ UNCHANGED <<now, mounted, services, incidents, aiStatus, loading,
                   non2xx, newest, calls, invocations, posts, screen>>

\* line 22: the interval timer fires and calls fetchData
TickEarlier ==
    /\ interval # NoTimer /\ interval = now
    /\ CanStart
    /\ syncs' = [syncs EXCEPT ![nextSync] = FetchDataStartEarlier(epoch)]
    /\ nextSync' = nextSync + 1
    /\ interval' = Rearm(interval)
    /\ attempts' = attempts \cup {now}
    /\ last' = Quiet
    /\ UNCHANGED <<now, mounted, epoch, services, incidents, aiStatus,
                   loading, non2xx, newest, calls, invocations, posts, screen>>

NextEarlier ==
    \/ MountEarlier
    \/ Unmount
    \/ TickEarlier
    \/ Advance
    \/ \E s \in SyncIds, out \in ChainOutcomes, d \in Bodies :
          ReadSettlesEarlier(s, out, d)

SpecEarlier == Init /\ [][NextEarlier]_vars

TypeOK ==
    /\ now \in 0..MaxTime
    /\ mounted \in BOOLEAN
    /\ loading \in BOOLEAN
    /\ nextSync \in 1..(MaxSyncs + 1)
    /\ Cardinality(InFlight) <= MaxInFlight

\* --------------------------------------------------------------------
\* Steps of interest
\* --------------------------------------------------------------------
\* this step ends a fetchData run
RunEnds == last'.op = "fetchData"
\* this step ends a run one of whose reads failed: a fetch() rejected or a body
\* did not parse ("failed"), or a response had a non-2xx status
FailedRunEnds == RunEnds /\ last'.out \in {"failed", "committedError"}
\* this step ends run s, whose three reads all resolved and parsed
RunResolves(s) == syncs[s].pc = "json" /\ syncs'[s].pc = "done" /\ last'.out # "failed"
\* this step is the continuation of the POST of an action of the kind
Settles(kind) == calls'[kind] = calls[kind] - 1
\* fetchData runs started by this step
Started == nextSync' - nextSync

\* --------------------------------------------------------------------
\* C1: a sync in which at least one of the three reads fails replaces none of
\* services, incidents and aiStatus.
\* --------------------------------------------------------------------
C1_FailedSyncKeepsSnapshot == [][FailedRunEnds => snapshot' = snapshot]_vars

\* --------------------------------------------------------------------
\* C2: after the effect's cleanup, a sync started before it never replaces the
\* Snapshot, whether the component is gone or the effect has been set up again.
\* --------------------------------------------------------------------
C2_NoCommitAfterStop ==
    [][\A s \in SyncIds :
         RunResolves(s) /\ (~mounted \/ syncs[s].epoch # epoch)
            => snapshot' = snapshot]_vars

\* --------------------------------------------------------------------
\* C3: the Snapshot always comes from the most recently started sync among
\* those that have committed.
\* --------------------------------------------------------------------
C3_SnapshotFromNewest == services.sync = newest

\* --------------------------------------------------------------------
\* C4: the continuation of a restart POST starts exactly one fetchData run when
\* the response is 2xx and none when it is not or when the POST rejects.
\* --------------------------------------------------------------------
C4_RestartForcesOneSync ==
    [][Settles("restart") =>
         /\ last'.op = "restart"
         /\ IF last'.out = "ok"
            THEN Started = 1 /\ syncs'[nextSync].pc = "all"
            ELSE Started = 0 /\ syncs' = syncs]_vars

C4_Witness ==
    /\ last.op = "restart" /\ last.out = "ok"
    /\ nextSync > 1 /\ syncs[nextSync - 1].pc = "all"

\* --------------------------------------------------------------------
\* C5: simulateIncident has the outcome shape of restart: success starts one
\* sync and emits a success notification, every failure (non-2xx or rejection)
\* emits a failure notification and starts no sync.
\* --------------------------------------------------------------------
C5_SimulateShape ==
    [][Settles("simulate") =>
         /\ Len(last'.toasts) = 1
         /\ IF last'.out = "ok"
            THEN Started = 1 /\ last'.toasts[1].kind = "success"
            ELSE Started = 0 /\ last'.toasts[1].kind = "error"]_vars

\* the part of C1 that the code keeps: a run that ends in the catch block (a
\* fetch() rejected or a body did not parse) replaces nothing
C1_RejectedSyncKeepsSnapshot ==
    [][RunEnds /\ last'.out = "failed" => snapshot' = snapshot /\ loading' = loading]_vars

\* --------------------------------------------------------------------
\* C6: the effect calls fetchData once when it is set up and its timer calls it
\* once at every multiple of the period while the component is mounted; after
\* the cleanup no timer is registered and the timer calls it no more.  With the
\* period of 5000 ms, the calls made by t = 11000 are those of t = 0, 5000 and
\* 10000, and a cleanup at that time leaves it at these three.
\* --------------------------------------------------------------------
\* the multiples of the period up to t
Multiples(t) == {k * Period : k \in 0..(t \div Period)}

C6_Schedule ==
    /\ (mounted /\ epoch > 0) =>
          /\ interval # NoTimer
          /\ now <= interval /\ interval <= now + Period
          /\ interval % Period = 0
          /\ attempts = {u \in Multiples(now) : u < interval}
    /\ ~mounted => interval = NoTimer
    /\ now = 11000 => attempts \subseteq {0, 5000, 10000}
    /\ (now = 11000 /\ epoch > 0 /\ mounted) => attempts = {0, 5000, 10000}

C6_TimerAttempts ==
    [][/\ C6_Schedule /\ C6_Schedule'
       /\ ~mounted' => attempts' = attempts /\ interval' = NoTimer]_vars

C6_Witness ==
    /\ ~mounted /\ now = 11000 /\ interval = NoTimer
    /\ attempts = {0, 5000, 10000}

\* --------------------------------------------------------------------
\* C7: a sync that fails (a read rejects or its body does not parse) does not
\* end the polling: the step in which it fails leaves the component mounted
\* and the timer registered with its next fire time, at most one period away,
\* and the next tick then fires and starts a new sync (C7_PollingSurvivesFailure).
\* --------------------------------------------------------------------
\* the step in which a sync fails leaves the effect and its timer as they were
C7_FailureKeepsPolling ==
    [][RunEnds /\ last'.out = "failed" =>
         /\ mounted' = mounted
         /\ interval' = interval
         /\ epoch' = epoch
         /\ mounted => /\ interval' # NoTimer
                       /\ now' <= interval' /\ interval' <= now' + Period]_vars

\* ... and, time passing and due timers firing, the timer's next call of
\* fetchData follows every failure, unless the component is unmounted first or
\* the model's bounds end the behaviour (the clock's end, the runs' number)
C7_Bounded == interval > MaxTime \/ ~CanStart

C7_NextTickFires ==
    \A n \in 1..MaxTicks :
        (last.op = "fetchData" /\ last.out = "failed" /\ mounted
            /\ Cardinality(attempts) = n)
        ~> (Cardinality(attempts) > n \/ ~mounted \/ C7_Bounded)

C8_FailureRecorded ==
    [][(RunEnds /\ last'.out = "failed" /\ last.out = "committed" /\ mounted)
          => <<services, incidents, aiStatus, loading>>'
                # <<services, incidents, aiStatus, loading>>]_vars

\* --------------------------------------------------------------------
\* C9: in every state a render can see, services, incidents and aiStatus come
\* from the same sync.
\* --------------------------------------------------------------------
C9_AtomicSnapshot ==
    /\ services.sync = incidents.sync
    /\ incidents.sync = aiStatus.sync

\* a second commit has replaced the Snapshot of an earlier one
C9_Witness ==
    /\ mounted /\ last.op = "fetchData" /\ last.out = "committed"
    /\ services.sync = 1 /\ newest = 2
    /\ incidents.sync = 1 /\ aiStatus.sync = 1

\* --------------------------------------------------------------------
\* C10: every invocation of restartService or simulateIncident issues exactly
\* one POST, whether or not an earlier action is in flight or has failed: the
\* POSTs issued equal the invocations, and a POST leaves the in-flight set
\* only by settling once.
\* --------------------------------------------------------------------
InFlightPosts == calls["restart"] + calls["simulate"]

C10_OnePostPerInvocation ==
    /\ posts = invocations
    /\ InFlightPosts <= posts

\* a second action was invoked while the first was in flight, and one of the
\* two has failed
C10_Witness ==
    /\ invocations = 2 /\ posts = 2 /\ InFlightPosts = 1
    /\ last.op \in ActionKinds /\ last.out \in {"non2xx", "reject"}

\* --------------------------------------------------------------------
\* C11: for every list of services, of whatever statuses, the dashboard's
\* healthyCount and unhealthyCount add up to the number of services, and
\* healthyCount is the number of services whose status is 'healthy'; one
\* healthy and one unhealthy service give 1 and 1.
\* --------------------------------------------------------------------
\* the positions of a list whose element is / is not the status
Having(list, status) == {k \in DOMAIN list : list[k] = status}
NotHaving(list, status) == {k \in DOMAIN list : list[k] # status}

C11_CountsPartition ==
    \A c \in 1..Len(screen.cards) :
        LET card == screen.cards[c] IN
        /\ card.healthyCount + card.unhealthyCount = Len(screen.services)
        /\ card.healthyCount = Cardinality(Having(screen.services, "healthy"))
        /\ screen.services = <<"healthy", "unhealthy">>
              => card.healthyCount = 1 /\ card.unhealthyCount = 1

\* the dashboard shows a healthy service and one of a backend-defined status
C11_Witness ==
    /\ screen.services = <<"healthy", "degraded">>
    /\ Len(screen.cards) = 1
    /\ screen.cards[1].healthyCount = 1 /\ screen.cards[1].unhealthyCount = 1

\* --------------------------------------------------------------------
\* C12: for every list of incidents, the active incident count is the number
\* of incidents whose status is not 'resolved', and the dashboard's stat card
\* and the footer show that same number; an open and a resolved incident give 1.
\* --------------------------------------------------------------------
C12_ActiveIncidentCount ==
    LET n == Cardinality(NotHaving(screen.incidents, "resolved")) IN
    /\ screen.footer.activeIncidents = n
    /\ \A c \in 1..Len(screen.cards) : screen.cards[c].activeIncidents = n
    /\ screen.incidents = <<"open", "resolved">> => n = 1

\* the dashboard and the footer show one resolved incident and one of a
\* backend-defined status
C12_Witness ==
    /\ screen.incidents = <<"resolved", "investigating">>
    /\ Len(screen.cards) = 1
    /\ screen.cards[1].activeIncidents = 1
    /\ screen.footer.activeIncidents = 1

\* --------------------------------------------------------------------
\* C13: a forced or manual sync (the fetchData() of a successful action, the
\* Refresh button) leaves the periodic schedule alone: the step that starts it
\* changes neither the timer nor the clock's reading of it, and the timer's
\* calls stay at the multiples of the period whether or not such syncs occur.
\* --------------------------------------------------------------------
\* this step starts a fetchData run that is not a call of the effect or of
\* its timer
ForcedSyncStarts == Started = 1 /\ epoch' = epoch /\ attempts' = attempts

C13_ForcedSyncKeepsSchedule ==
    [][/\ ForcedSyncStarts => interval' = interval /\ now' = now
       /\ C6_Schedule']_vars

\* a restart has forced a sync at t = 6000, between two ticks: the timer has
\* fired at 5000 and is due at 10000
C13_Witness ==
    /\ last.op = "restart" /\ last.out = "ok"
    /\ now = Period + Quantum
    /\ attempts = {0, Period} /\ interval = 2 * Period
    /\ nextSync = 4 /\ syncs[3].pc = "all"

\* --------------------------------------------------------------------
\* C14: a read that returns a non-2xx status counts as failed: the body of
\* such a response is never stored as services, incidents or aiStatus.
\* --------------------------------------------------------------------
C14_NoErrorBodyStored ==
    /\ services.body # "error"
    /\ incidents.body # "error"
    /\ aiStatus.body # "error"

\* --------------------------------------------------------------------
\* C15: within one sync the three reads are issued together: the step that
\* starts a fetchData run issues all three requests before the run waits for
\* any response, and no later step of the run issues a read, so no read's
\* start waits for another read's completion.
\* --------------------------------------------------------------------
C15_ReadsIssuedTogether ==
    [][\A s \in SyncIds :
         IF syncs[s].pc = "idle"
         THEN syncs'[s].pc # "idle" => syncs'[s].pending = Reads
         ELSE syncs'[s].pending \subseteq syncs[s].pending]_vars

\* the part of C15 that holds of the later revision's run while it waits in
\* Promise.all: any of its pending reads may be the next to settle
C15_AnyOrder ==
    \A s \in SyncIds : \A r \in syncs[s].pending :
        syncs[s].pc = "all" => ENABLED ReadSettles(s, r, "response")

\* --------------------------------------------------------------------
\* C16: every restartService invocation that completes emits exactly one
\* notification: a success notification if and only if the POST returned 2xx,
\* a failure notification otherwise (non-2xx response or rejection); the
\* success notification is emitted by the step that starts the forced sync,
\* before the run it starts has taken any step.
\* --------------------------------------------------------------------
C16_RestartNotifiesOnce ==
    [][Settles("restart") =>
         /\ last'.op = "restart"
         /\ Len(last'.toasts) = 1
         /\ last'.toasts[1].kind = "success" <=> last'.out = "ok"
         /\ last'.toasts[1].kind = "error" <=> last'.out \in {"non2xx", "reject"}
         /\ last'.out = "ok" => Started = 1 /\ syncs'[nextSync].pending = Reads]_vars

\* a restart has failed with a non-2xx response after one that succeeded
C16_Witness ==
    /\ last.op = "restart" /\ last.out = "non2xx"
    /\ Len(last.toasts) = 1 /\ last.toasts[1].kind = "error"
    /\ invocations = 2 /\ calls["restart"] = 0 /\ nextSync = 3

\* --------------------------------------------------------------------
\* C17: notifications are emitted at action outcomes only: no step that ends a
\* sync, whether the sync commits or fails, emits a notification.
\* --------------------------------------------------------------------
C17_SyncsEmitNothing == [][RunEnds => last'.toasts = <<>>]_vars

\* --------------------------------------------------------------------
\* C18: loading starts true, never returns to true, and becomes false only in
\* the step in which a sync all of whose reads succeeded commits services,
\* incidents and aiStatus.
\* --------------------------------------------------------------------
\* this step is the commit of a run whose three reads all brought data
SuccessfulCommit ==
    /\ RunEnds /\ last'.out = "committed"
    /\ \E s \in SyncIds :
         /\ RunResolves(s)
         /\ services' = Cell(s, "data")
         /\ incidents' = Cell(s, "data")
         /\ aiStatus' = Cell(s, "data")

C18_LoadingTiedToCommit ==
    [][/\ ~loading => ~loading'
       /\ loading /\ ~loading' => SuccessfulCommit]_vars

\* the part of C18 that the code keeps: loading never returns to true, it
\* becomes false only in a step in which a run stores its three bodies, and a
\* run that ends in the catch block leaves it and the Snapshot as they are
C18_LoadingMonotone ==
    [][/\ ~loading => ~loading'
       /\ loading /\ ~loading' =>
            /\ RunEnds /\ last'.out \in {"committed", "committedError"}
            /\ \E s \in SyncIds : RunResolves(s) /\ services'.sync = s
                                    /\ incidents'.sync = s /\ aiStatus'.sync = s
       /\ RunEnds /\ last'.out = "failed" =>
            loading' = loading /\ snapshot' = snapshot]_vars

\* --------------------------------------------------------------------
\* C19: the 'Active Incidents Detected' banner agrees with the active incident
\* count: where the banner is shown, at least one incident is not resolved,
\* and where at least one incident is not resolved and loading is false, the
\* banner is shown.
\* --------------------------------------------------------------------
C19_BannerMatchesCount ==
    LET n == Cardinality(NotHaving(screen.incidents, "resolved")) IN
    /\ screen.banner => n >= 1
    /\ (n >= 1 /\ ~screen.loading) => screen.banner

\* the part of C19 that the code keeps: active incidents always raise the banner
C19_ActiveRaisesBanner ==
    LET n == Cardinality(NotHaving(screen.incidents, "resolved")) IN
    (n >= 1 /\ ~screen.loading) => screen.banner

====
